---- MODULE Spec2Model ----
(***************************************************************************)
(* Capability-discovery-and-invocation broker: the endpoint registry       *)
(* (backend/registry.py), the discovery engine (backend/discovery.py) and  *)
(* the request handlers with the execution dispatcher (backend/main.py).   *)
(***************************************************************************)
EXTENDS Integers, Sequences, FiniteSets, Bags, TLC

VARIABLES
    registry,   \* EndpointRegistry._endpoints: a dict, kept in insertion order
    phase,      \* "boot" before the startup event, "up" once it has run
    host,       \* the host environment as the latest discovery pass saw it
    clock,      \* logical datetime.now(): number of discovery passes begun
    lastPass,   \* trace of the latest discover_all call
    resp,       \* the response of the latest completed request
    sleeping,   \* execute requests suspended in asyncio.sleep
    lastOp      \* the latest operation applied, with what it was applied to

vars == <<registry, phase, host, clock, lastPass, resp, sleeping, lastOp>>

----------------------------------------------------------------------------
(* Bounds of the model                                                     *)

MaxHostTools == 3   \* tools of HostPool that the hosts of the model may have
MaxClock == 2       \* discovery passes (startup included) in one behaviour
MaxSleeping == 1    \* execute requests suspended in the delay at once
MaxRegIds == 3      \* distinct ids used when driving the registry directly
MaxCatalogTools == 1  \* allow-listed tools present at once on a host of the catalog run

----------------------------------------------------------------------------
(* registry.py                                                             *)

\* @dataclass EndpointMetadata
EndpointMetadata(id, name, description, category, parameters, discovered_at) ==
    [id |-> id, name |-> name, description |-> description,
     category |-> category, parameters |-> parameters,
     discovered_at |-> discovered_at]

\* positions of the dict that hold the key id
KeyIndex(reg, id) == {i \in 1..Len(reg) : reg[i].id = id}

\* endpoint_id in self._endpoints
Contains(reg, id) == KeyIndex(reg, id) # {}

\* dict keys
Ids(reg) == {reg[i].id : i \in 1..Len(reg)}

\* a register that updates the stored parameters instead of replacing the entry
RegisterMerge(reg, endpoint) ==
    IF Contains(reg, endpoint.id)
    THEN [i \in 1..Len(reg) |->
            IF reg[i].id = endpoint.id
            THEN [endpoint EXCEPT !.parameters =
                    [k \in DOMAIN reg[i].parameters \cup DOMAIN endpoint.parameters |->
                        IF k \in DOMAIN endpoint.parameters
                        THEN endpoint.parameters[k] ELSE reg[i].parameters[k]]]
            ELSE reg[i]]
    ELSE Append(reg, endpoint)

\* EndpointRegistry.register: self._endpoints[endpoint.id] = endpoint
Register(reg, endpoint) ==
    IF Contains(reg, endpoint.id)
    THEN [i \in 1..Len(reg) |-> IF reg[i].id = endpoint.id THEN endpoint ELSE reg[i]]
    ELSE Append(reg, endpoint)

\* EndpointRegistry.unregister
Unregister(reg, endpoint_id) ==
    IF Contains(reg, endpoint_id)
    THEN SelectSeq(reg, LAMBDA e : e.id # endpoint_id)
    ELSE reg

\* EndpointRegistry.get: <<>> is None
Get(reg, endpoint_id) ==
    IF Contains(reg, endpoint_id)
    THEN <<reg[CHOOSE i \in KeyIndex(reg, endpoint_id) : TRUE]>>
    ELSE <<>>

\* EndpointRegistry.get_all
GetAll(reg) == reg

\* EndpointRegistry.get_by_category
GetByCategory(reg, category) == SelectSeq(reg, LAMBDA e : e.category = category)

\* EndpointRegistry.clear
Clear(reg) == <<>>

\* EndpointRegistry.count
Count(reg) == Len(reg)

\* a lookup that takes the entry out of the dict (pop instead of get)
AfterGetPop(reg, endpoint_id) == Unregister(reg, endpoint_id)

\* self._endpoints after get(endpoint_id): dict.get reads, it stores nothing
AfterGet(reg, endpoint_id) == reg

\* self._endpoints after get_all(): the values are copied into a new list
AfterGetAll(reg) == reg

\* self._endpoints after count()
AfterCount(reg) == reg

----------------------------------------------------------------------------
(* The host environment: search path and process-run primitive             *)

\* an empty parameters dict
NoParameters == [k \in {} |-> ""]

\* subprocess.run(argv, timeout=...): returns with exit code 0, returns with a
\* nonzero exit code, raises TimeoutExpired, or raises OSError at spawn
RunOutcomes == {"exit0", "nonzero", "timeout", "oserror"}

\* CompletedProcess, or the exception subprocess.run raised
SubprocessRun(outcome, stdout, stderr) ==
    CASE outcome = "exit0"   -> [raised |-> "", returncode |-> 0,
                                 stdout |-> stdout, stderr |-> ""]
      [] outcome = "nonzero" -> [raised |-> "", returncode |-> 1,
                                 stdout |-> "", stderr |-> stderr]
      [] outcome = "timeout" -> [raised |-> "TimeoutExpired", returncode |-> -1,
                                 stdout |-> "", stderr |-> ""]
      [] OTHER               -> [raised |-> "OSError", returncode |-> -1,
                                 stdout |-> "", stderr |-> ""]

\* platform.system(), release(), version(), machine(), processor()
Platform ==
    [system |-> "Linux", release |-> "6.1", version |-> "#1 SMP",
     machine |-> "x86_64", processor |-> "x86_64"]

\* what `<tool> --version` prints on this host when it exits 0
VersionStdout(tool) == tool \o " 1.0.0\nbuilt with care\n"

\* discover_sample_modules: the sample_modules list (values rendered as text)
SampleModules == <<
    [id |-> "sample_text_uppercase", name |-> "Text to Uppercase",
     description |-> "Converts text to uppercase",
     category |-> "Text Processing",
     parameters |-> [input |-> "text"]],
    [id |-> "sample_text_lowercase", name |-> "Text to Lowercase",
     description |-> "Converts text to lowercase",
     category |-> "Text Processing",
     parameters |-> [input |-> "text"]],
    [id |-> "sample_text_reverse", name |-> "Reverse Text",
     description |-> "Reverses the order of characters in text",
     category |-> "Text Processing",
     parameters |-> [input |-> "text"]],
    [id |-> "sample_text_word_count", name |-> "Count Words",
     description |-> "Counts the number of words in text",
     category |-> "Text Processing",
     parameters |-> [input |-> "text"]],
    [id |-> "sample_math_add", name |-> "Add Numbers",
     description |-> "Adds two numbers together",
     category |-> "Math Operations",
     parameters |-> [a |-> "0", b |-> "0"]],
    [id |-> "sample_math_multiply", name |-> "Multiply Numbers",
     description |-> "Multiplies two numbers together",
     category |-> "Math Operations",
     parameters |-> [a |-> "1", b |-> "1"]],
    [id |-> "sample_math_power", name |-> "Power",
     description |-> "Raises a number to a power",
     category |-> "Math Operations",
     parameters |-> [base |-> "2", exponent |-> "2"]],
    [id |-> "sample_data_json_parse", name |-> "Parse JSON",
     description |-> "Parses a JSON string into an object",
     category |-> "Data Processing",
     parameters |-> [json_string |-> "{}"]],
    [id |-> "sample_data_json_stringify", name |-> "Stringify JSON",
     description |-> "Converts an object to a JSON string",
     category |-> "Data Processing",
     parameters |-> [data |-> "{}"]],
    [id |-> "sample_util_delay", name |-> "Delay",
     description |-> "Waits for a specified number of seconds",
     category |-> "Utilities",
     parameters |-> [seconds |-> "1"]],
    [id |-> "sample_util_timestamp", name |-> "Get Timestamp",
     description |-> "Gets the current timestamp",
     category |-> "Utilities",
     parameters |-> NoParameters],
    [id |-> "sample_util_random", name |-> "Random Number",
     description |-> "Generates a random number between min and max",
     category |-> "Utilities",
     parameters |-> [min |-> "0", max |-> "100"]],
    [id |-> "sample_string_concat", name |-> "Concatenate Strings",
     description |-> "Combines two strings together",
     category |-> "Text Processing",
     parameters |-> [str1 |-> "", str2 |-> ""]],
    [id |-> "sample_string_replace", name |-> "Replace Text",
     description |-> "Replaces occurrences of text in a string",
     category |-> "Text Processing",
     parameters |-> [text |-> "", old |-> "", new |-> ""]]
>>

\* discover_common_tools: the common_tools dict, in its insertion order
CommonTools == <<
    [tool |-> "python", name |-> "Python",
     description |-> "Python interpreter"],
    [tool |-> "node", name |-> "Node.js",
     description |-> "Node.js runtime"],
    [tool |-> "npm", name |-> "NPM",
     description |-> "Node Package Manager"],
    [tool |-> "git", name |-> "Git",
     description |-> "Git version control"],
    [tool |-> "docker", name |-> "Docker",
     description |-> "Docker container platform"],
    [tool |-> "kubectl", name |-> "Kubernetes",
     description |-> "Kubernetes CLI"]
>>

\* discover_python_tools: the python_tools dict, in its insertion order
PythonTools == <<
    [tool |-> "pip", name |-> "pip",
     description |-> "Python package installer"],
    [tool |-> "pipenv", name |-> "Pipenv",
     description |-> "Python dependency management"],
    [tool |-> "poetry", name |-> "Poetry",
     description |-> "Python dependency and package management"],
    [tool |-> "black", name |-> "Black",
     description |-> "Python code formatter"],
    [tool |-> "flake8", name |-> "Flake8",
     description |-> "Python linter"],
    [tool |-> "pytest", name |-> "pytest",
     description |-> "Python testing framework"]
>>

\* discover_node_tools: the node_tools dict, in its insertion order
NodeTools == <<
    [tool |-> "yarn", name |-> "Yarn",
     description |-> "Yarn package manager"],
    [tool |-> "pnpm", name |-> "pnpm",
     description |-> "pnpm package manager"],
    [tool |-> "npx", name |-> "npx",
     description |-> "Execute npm packages"],
    [tool |-> "tsc", name |-> "TypeScript Compiler",
     description |-> "TypeScript compiler"]
>>

SeqRange(s) == {s[i] : i \in 1..Len(s)}

CommonToolNames == {t.tool : t \in SeqRange(CommonTools)}
AllToolNames ==
    CommonToolNames \cup {t.tool : t \in SeqRange(PythonTools)}
                    \cup {t.tool : t \in SeqRange(NodeTools)}

\* the allow-listed tools, in the order in which the model lets hosts have them
HostPool == <<"git", "pip", "yarn", "pnpm", "python", "node", "npm", "docker",
              "kubectl", "pipenv", "poetry", "black", "flake8", "pytest", "npx", "tsc">>

HostTools == {HostPool[i] : i \in 1..MaxHostTools}

\* host states: which tools are on the search path, how each present common
\* tool answers --version, and how `git rev-parse --is-inside-work-tree`
\* answers (it is asked only when git is on the path)
HostStates ==
    UNION {{[present |-> p, versionRun |-> v, workTree |-> w] :
                v \in [p \cap CommonToolNames -> RunOutcomes],
                w \in IF "git" \in p THEN RunOutcomes ELSE {"notrun"}} :
           p \in SUBSET HostTools}

\* shutil.which(tool)
Which(h, tool) == tool \in h.present

----------------------------------------------------------------------------
(* discovery.py                                                            *)

VersionTimeout == 2     \* _get_version: timeout=2
WorkTreeTimeout == 2    \* discover_git_tools: timeout=2

IsSpace(c) == c \in {" ", "\n", "\t"}

\* str.strip()
RECURSIVE LStrip(_)
LStrip(s) ==
    IF Len(s) > 0 /\ IsSpace(SubSeq(s, 1, 1))
    THEN LStrip(SubSeq(s, 2, Len(s))) ELSE s

RECURSIVE RStrip(_)
RStrip(s) ==
    IF Len(s) > 0 /\ IsSpace(SubSeq(s, Len(s), Len(s)))
    THEN RStrip(SubSeq(s, 1, Len(s) - 1)) ELSE s

Strip(s) == RStrip(LStrip(s))

\* s.split('\n')[0]
FirstLine(s) ==
    LET nl == {i \in 1..Len(s) : SubSeq(s, i, i) = "\n"}
    IN  IF nl = {} THEN s
        ELSE SubSeq(s, 1, (CHOOSE i \in nl : \A j \in nl : i <= j) - 1)

\* SystemDiscovery._get_version
GetVersion(h, command) ==
    LET result == SubprocessRun(h.versionRun[command], VersionStdout(command), "")
    IN  IF result.raised = "" /\ result.returncode = 0
        THEN FirstLine(Strip(result.stdout))
        ELSE "unknown"

\* A discovery pass in progress: the registry, the probes entered so far, the
\* processes run so far, and the exception (if any) that has left a probe.
PassStart(reg) == [reg |-> reg, ran |-> <<>>, runs |-> <<>>, raised |-> ""]

Enter(st, probe) == [st EXCEPT !.ran = Append(@, probe)]

\* SystemDiscovery.discover_sample_modules
RECURSIVE RegisterSamples(_, _, _)
RegisterSamples(reg, i, now) ==
    IF i > Len(SampleModules) THEN reg
    ELSE LET module == SampleModules[i]
         IN  RegisterSamples(
                Register(reg, EndpointMetadata(module.id, module.name,
                                               module.description, module.category,
                                               module.parameters, now)),
                i + 1, now)

\* a sample probe whose loop starts one entry late
DiscoverSampleModulesShort(st, now) ==
    [Enter(st, "sample_modules") EXCEPT !.reg = RegisterSamples(@, 2, now)]

DiscoverSampleModules(st, now) ==
    [Enter(st, "sample_modules") EXCEPT !.reg = RegisterSamples(@, 1, now)]

\* SystemDiscovery.discover_common_tools
RECURSIVE CommonToolsLoop(_, _, _, _)
CommonToolsLoop(st, i, h, now) ==
    IF i > Len(CommonTools) THEN st
    ELSE LET tool == CommonTools[i].tool
             info == CommonTools[i]
         IN  CommonToolsLoop(
                IF Which(h, tool)
                THEN [st EXCEPT
                        !.runs = Append(@, [argv |-> <<tool, "--version">>,
                                            timeout |-> VersionTimeout]),
                        !.reg = Register(@, EndpointMetadata(
                                    "tool_" \o tool, info.name, info.description,
                                    "Tools",
                                    [command |-> tool, version |-> GetVersion(h, tool)],
                                    now))]
                ELSE st,
                i + 1, h, now)

DiscoverCommonTools(st, h, now) == CommonToolsLoop(Enter(st, "common_tools"), 1, h, now)

\* SystemDiscovery.discover_python_tools
RECURSIVE PythonToolsLoop(_, _, _, _)
PythonToolsLoop(st, i, h, now) ==
    IF i > Len(PythonTools) THEN st
    ELSE LET tool == PythonTools[i].tool
             info == PythonTools[i]
         IN  PythonToolsLoop(
                IF Which(h, tool)
                THEN [st EXCEPT !.reg = Register(@, EndpointMetadata(
                                    "python_" \o tool, info.name, info.description,
                                    "Python Tools", [command |-> tool], now))]
                ELSE st,
                i + 1, h, now)

DiscoverPythonTools(st, h, now) == PythonToolsLoop(Enter(st, "python_tools"), 1, h, now)

\* SystemDiscovery.discover_node_tools
RECURSIVE NodeToolsLoop(_, _, _, _)
NodeToolsLoop(st, i, h, now) ==
    IF i > Len(NodeTools) THEN st
    ELSE LET tool == NodeTools[i].tool
             info == NodeTools[i]
         IN  NodeToolsLoop(
                IF Which(h, tool)
                THEN [st EXCEPT !.reg = Register(@, EndpointMetadata(
                                    "node_" \o tool, info.name, info.description,
                                    "Node.js Tools", [command |-> tool], now))]
                ELSE st,
                i + 1, h, now)

DiscoverNodeTools(st, h, now) == NodeToolsLoop(Enter(st, "node_tools"), 1, h, now)

GitRepoEndpoint(now) ==
    EndpointMetadata("git_repo", "Git Repository",
                     "Current directory is a Git repository", "Git",
                     [is_repo |-> "true"], now)

WorkTreeRun == [argv |-> <<"git", "rev-parse", "--is-inside-work-tree">>,
                timeout |-> WorkTreeTimeout]

\* a git probe whose work-tree query is not wrapped in try/except
DiscoverGitToolsUnguarded(st, h, now) ==
    LET s == Enter(st, "git_tools")
    IN  IF Which(h, "git")
        THEN LET result == SubprocessRun(h.workTree, "true\n", "fatal: not a git repository")
                 ran == [s EXCEPT !.runs = Append(@, WorkTreeRun)]
             IN  IF result.raised # ""
                 THEN [ran EXCEPT !.raised = result.raised]
                 ELSE IF result.returncode = 0
                      THEN [ran EXCEPT !.reg = Register(@, GitRepoEndpoint(now))]
                      ELSE ran
        ELSE s

\* a git probe that registers the endpoint whatever the query's exit code
DiscoverGitToolsAnyExit(st, h, now) ==
    LET s == Enter(st, "git_tools")
    IN  IF Which(h, "git")
        THEN LET result == SubprocessRun(h.workTree, "true\n", "fatal: not a git repository")
                 ran == [s EXCEPT !.runs = Append(@, WorkTreeRun)]
             IN  IF result.raised # ""
                 THEN ran
                 ELSE [ran EXCEPT !.reg = Register(@, GitRepoEndpoint(now))]
        ELSE s

\* SystemDiscovery.discover_git_tools
DiscoverGitTools(st, h, now) ==
    LET s == Enter(st, "git_tools")
    IN  IF Which(h, "git")
        THEN LET result == SubprocessRun(h.workTree, "true\n", "fatal: not a git repository")
                 ran == [s EXCEPT !.runs = Append(@, WorkTreeRun)]
             IN  IF result.raised # ""
                 THEN ran                                   \* except Exception: pass
                 ELSE IF result.returncode = 0
                      THEN [ran EXCEPT !.reg = Register(@, GitRepoEndpoint(now))]
                      ELSE ran
        ELSE s

\* a system probe that makes its id unique by numbering it
DiscoverSystemInfoNumbered(st, now) ==
    [Enter(st, "system_info") EXCEPT !.reg = Register(@, EndpointMetadata(
        "system_info_" \o ToString(Count(st.reg)), "System Information",
        "System: " \o Platform.system \o " " \o Platform.release,
        "System",
        [system |-> Platform.system, release |-> Platform.release,
         version |-> Platform.version, machine |-> Platform.machine,
         processor |-> Platform.processor],
        now))]

\* SystemDiscovery.discover_system_info
DiscoverSystemInfo(st, now) ==
    [Enter(st, "system_info") EXCEPT !.reg = Register(@, EndpointMetadata(
        "system_info", "System Information",
        "System: " \o Platform.system \o " " \o Platform.release,
        "System",
        [system |-> Platform.system, release |-> Platform.release,
         version |-> Platform.version, machine |-> Platform.machine,
         processor |-> Platform.processor],
        now))]

\* discover_all from its sixth call on: a call is reached only if no exception
\* has left an earlier one
FromSystemInfo(st, now) ==
    IF st.raised # "" THEN st ELSE DiscoverSystemInfo(st, now)

\* discover_all from its fifth call on
FromGitTools(st, h, now) ==
    IF st.raised # "" THEN st ELSE FromSystemInfo(DiscoverGitTools(st, h, now), now)

\* discover_all from its fourth call on
FromNodeTools(st, h, now) ==
    IF st.raised # "" THEN st ELSE FromGitTools(DiscoverNodeTools(st, h, now), h, now)

\* discover_all from its third call on
FromPythonTools(st, h, now) ==
    IF st.raised # "" THEN st ELSE FromNodeTools(DiscoverPythonTools(st, h, now), h, now)

\* discover_all from its second call on
FromCommonTools(st, h, now) ==
    IF st.raised # "" THEN st ELSE FromPythonTools(DiscoverCommonTools(st, h, now), h, now)

\* SystemDiscovery.discover_all: six calls in a row, no try/except around them
DiscoverAll(reg, h, now) ==
    FromCommonTools(DiscoverSampleModules(PassStart(reg), now), h, now)

\* the probes of discover_all, in call order
ProbeOrder == <<"sample_modules", "common_tools", "python_tools", "node_tools",
                "git_tools", "system_info">>

----------------------------------------------------------------------------
(* main.py: request and response values                                    *)

\* JSON values a parameter bag may carry, tagged with their Python type; v is
\* the value written as text (numbers in decimal)
Str(s) == [t |-> "str", v |-> s]
Num(s) == [t |-> "int", v |-> s]
Null == [t |-> "NoneType", v |-> "None"]
List == [t |-> "list", v |-> "[1]"]

BagValues == {Str("a B"), Str("1"), Num("1"), Null, List}

\* ExecuteResponse(success, message, output): output <<>> is None
ExecuteResponse(success, message, output) ==
    [success |-> success, message |-> message, output |-> output]

\* how a strategy ends: it returns a response, raises, or suspends in a sleep
Return(response) == [raised |-> "", response |-> response, sleep |-> <<>>]
Raise(text) == [raised |-> text, response |-> <<>>, sleep |-> <<>>]
Suspend(seconds) == [raised |-> "", response |-> <<>>, sleep |-> <<seconds>>]

\* dict.get(key, default)
DictGet(params, key, default) == IF key \in DOMAIN params THEN params[key] ELSE default

Digits == "0123456789"
Lowers == "abcdefghijklmnopqrstuvwxyz"
Uppers == "ABCDEFGHIJKLMNOPQRSTUVWXYZ"

\* position of the one-character string c in s, 0 when it is not there
IndexIn(s, c) ==
    LET at == {i \in 1..Len(s) : SubSeq(s, i, i) = c}
    IN  IF at = {} THEN 0 ELSE CHOOSE i \in at : TRUE

IsDigits(s) == Len(s) > 0 /\ \A i \in 1..Len(s) : IndexIn(Digits, SubSeq(s, i, i)) > 0

RECURSIVE Atoi(_)
Atoi(s) ==
    IF Len(s) = 0 THEN 0
    ELSE 10 * Atoi(SubSeq(s, 1, Len(s) - 1)) + IndexIn(Digits, SubSeq(s, Len(s), Len(s))) - 1

\* float(x): <<n>> on success (whole numbers only), else the exception text
Float(x) ==
    CASE x.t = "int" -> [ok |-> TRUE, n |-> Atoi(x.v), text |-> ""]
      [] x.t = "str" ->
            IF IsDigits(Strip(x.v))
            THEN [ok |-> TRUE, n |-> Atoi(Strip(x.v)), text |-> ""]
            ELSE [ok |-> FALSE, n |-> 0,
                  text |-> "could not convert string to float: '" \o x.v \o "'"]
      [] OTHER -> [ok |-> FALSE, n |-> 0,
                   text |-> "float() argument must be a string or a real number, not '"
                            \o x.t \o "'"]

\* str(f) of a float holding a whole number
FloatStr(n) == ToString(n) \o ".0"

\* str(x)
PyStr(x) == x.v

\* str.upper(), str.lower()
RECURSIVE MapChars(_, _, _)
MapChars(s, from, to) ==
    IF Len(s) = 0 THEN ""
    ELSE LET c == SubSeq(s, 1, 1)
             k == IndexIn(from, c)
         IN  (IF k = 0 THEN c ELSE SubSeq(to, k, k)) \o MapChars(SubSeq(s, 2, Len(s)), from, to)

Upper(s) == MapChars(s, Lowers, Uppers)
Lower(s) == MapChars(s, Uppers, Lowers)

\* s[::-1]
RECURSIVE Reverse(_)
Reverse(s) ==
    IF Len(s) = 0 THEN "" ELSE Reverse(SubSeq(s, 2, Len(s))) \o SubSeq(s, 1, 1)

\* len(s.split()): maximal runs of non-whitespace characters
WordCount(s) ==
    Cardinality({i \in 1..Len(s) :
                    /\ ~IsSpace(SubSeq(s, i, i))
                    /\ (i = 1 \/ IsSpace(SubSeq(s, i - 1, i - 1)))})

\* str.replace(old, new): every non-overlapping occurrence, left to right; an
\* empty old matches before every character and at the end
RECURSIVE ReplaceAll(_, _, _)
ReplaceAll(text, old, new) ==
    IF Len(old) = 0
    THEN IF Len(text) = 0 THEN new
         ELSE new \o SubSeq(text, 1, 1) \o ReplaceAll(SubSeq(text, 2, Len(text)), old, new)
    ELSE IF Len(text) < Len(old) THEN text
         ELSE IF SubSeq(text, 1, Len(old)) = old
              THEN new \o ReplaceAll(SubSeq(text, Len(old) + 1, Len(text)), old, new)
              ELSE SubSeq(text, 1, 1) \o ReplaceAll(SubSeq(text, 2, Len(text)), old, new)

\* base ** exponent for whole exponent >= 0
RECURSIVE Power(_, _)
Power(base, exponent) == IF exponent = 0 THEN 1 ELSE base * Power(base, exponent - 1)

\* json.loads(s) on the strings of the model: a number parses, "{}" parses,
\* anything else is a JSONDecodeError
JsonLoads(s) ==
    IF IsDigits(s) \/ s = "{}"
    THEN [ok |-> TRUE, text |-> s]
    ELSE [ok |-> FALSE, text |-> "Expecting value: line 1 column 1 (char 0)"]

\* json.dumps(data, indent=2)
JsonDumps(x) ==
    CASE x.t = "str"  -> "\"" \o x.v \o "\""
      [] x.t = "int"  -> x.v
      [] x.t = "NoneType" -> "null"
      [] x.t = "list" -> "[\n  1\n]"
      [] OTHER        -> x.v

NoAttribute(x, attr) == "'" \o x.t \o "' object has no attribute '" \o attr \o "'"

----------------------------------------------------------------------------
(* main.py: execution strategies                                           *)

ToolTimeout == 5      \* tool re-invocation: timeout=5
StatusTimeout == 2    \* git status: timeout=2

\* s.startswith(p)
StartsWith(s, p) == Len(s) >= Len(p) /\ SubSeq(s, 1, Len(p)) = p

EmptyDict == [t |-> "dict", v |-> "{}"]

TimeoutText(argv, seconds) ==
    "Command '" \o argv[1] \o "' timed out after " \o ToString(seconds) \o " seconds"

SpawnErrorText(argv) == "[Errno 2] No such file or directory: '" \o argv[1] \o "'"

RaisedText(result, argv, seconds) ==
    IF result.raised = "TimeoutExpired" THEN TimeoutText(argv, seconds)
    ELSE SpawnErrorText(argv)

\* a process run made by the request: what was run, its bound, how it ended
\* (the CompletedProcess or the exception)
Spawn(argv, seconds, result) ==
    [argv |-> argv, timeout |-> seconds, result |-> result]

\* a tool strategy that runs the command a second time when the first run times out
ToolStrategyRetry(endpoint_id, endpoint, env) ==
    LET command == DictGet(endpoint.parameters, "command", endpoint_id)
        argv == IF command # "" THEN <<command, "--version">> ELSE <<endpoint_id>>
        result == SubprocessRun(env.run, VersionStdout(command), command \o ": failed")
        first == <<Spawn(argv, ToolTimeout, result)>>
    IN  IF result.raised = "TimeoutExpired"
        THEN [spawned |-> first \o first,
              end |-> Raise(RaisedText(result, argv, ToolTimeout))]
        ELSE [spawned |-> first,
              end |-> IF result.raised # ""
                      THEN Raise(RaisedText(result, argv, ToolTimeout))
                      ELSE IF result.returncode = 0
                           THEN Return(ExecuteResponse(TRUE,
                                    "Successfully executed " \o endpoint.name,
                                    <<result.stdout>>))
                           ELSE Return(ExecuteResponse(FALSE,
                                    "Execution failed: " \o result.stderr,
                                    <<result.stderr>>))]

\* execute_endpoint, the tool_ / python_ / node_ branch
ToolStrategy(endpoint_id, endpoint, env) ==
    LET command == DictGet(endpoint.parameters, "command", endpoint_id)
        argv == IF command # "" THEN <<command, "--version">> ELSE <<endpoint_id>>
        result == SubprocessRun(env.run, VersionStdout(command), command \o ": failed")
    IN  [spawned |-> <<Spawn(argv, ToolTimeout, result)>>,
         end |-> IF result.raised # ""
                 THEN Raise(RaisedText(result, argv, ToolTimeout))
                 ELSE IF result.returncode = 0
                      THEN Return(ExecuteResponse(TRUE,
                                "Successfully executed " \o endpoint.name,
                                <<result.stdout>>))
                      ELSE Return(ExecuteResponse(FALSE,
                                "Execution failed: " \o result.stderr,
                                <<result.stderr>>))]

\* execute_endpoint, the system_info branch: str(info)
SystemInfoStrategy ==
    [spawned |-> <<>>,
     end |-> Return(ExecuteResponse(TRUE, "System information retrieved",
                <<"{'system': '" \o Platform.system
                  \o "', 'release': '" \o Platform.release
                  \o "', 'version': '" \o Platform.version
                  \o "', 'machine': '" \o Platform.machine \o "'}">>))]

\* execute_endpoint, the git_repo branch, with its own try/except
GitRepoStrategy(env) ==
    LET argv == <<"git", "status", "--short">>
        result == SubprocessRun(env.run, env.statusText, "fatal: not a git repository")
    IN  [spawned |-> <<Spawn(argv, StatusTimeout, result)>>,
         end |-> IF result.raised # ""
                 THEN Return(ExecuteResponse(FALSE,
                        "Error getting git status: " \o RaisedText(result, argv, StatusTimeout),
                        <<>>))
                 ELSE Return(ExecuteResponse(TRUE, "Git repository status",
                        <<IF result.returncode = 0 THEN result.stdout ELSE "No changes">>))]

\* text.upper(), text.lower(), str(len(text.split()))
StrMethod(attr, text) ==
    CASE attr = "upper" -> Upper(text)
      [] attr = "lower" -> Lower(text)
      [] attr = "split" -> ToString(WordCount(text))

\* a sample operation on one text parameter: a str method applied to it
TextOp(params, attr, message) ==
    LET text == DictGet(params, "input", Str(""))
    IN  IF text.t = "str"
        THEN Return(ExecuteResponse(TRUE, message, <<StrMethod(attr, text.v)>>))
        ELSE Raise(NoAttribute(text, attr))

\* random.uniform(a, b) is a + (b - a) * random(); the model draws random()
\* from {0, 1/2}
Uniform(a, b, r) == IF r = 0 THEN a ELSE a + (b - a) \div 2

\* a + b, a * b, base ** exponent, random.uniform(min_val, max_val)
Arith(op, a, b, r) ==
    CASE op = "add" -> a + b
      [] op = "multiply" -> a * b
      [] op = "power" -> Power(a, b)
      [] op = "uniform" -> Uniform(a, b, r)

\* a sample operation on two numbers: float() of each, then the operation
MathOp(params, ka, da, kb, db, message, op, r) ==
    LET a == Float(DictGet(params, ka, da))
        b == Float(DictGet(params, kb, db))
    IN  IF ~a.ok THEN Raise(a.text)
        ELSE IF ~b.ok THEN Raise(b.text)
        ELSE Return(ExecuteResponse(TRUE, message, <<FloatStr(Arith(op, a.n, b.n, r))>>))

\* datetime.isoformat() of the logical time t
IsoFormat(t) == "T" \o ToString(t)

\* execute_endpoint, the sample_ branch
SampleStrategy(endpoint_id, params, env) ==
    IF endpoint_id = "sample_text_uppercase" THEN
        TextOp(params, "upper", "Text converted to uppercase")
    ELSE IF endpoint_id = "sample_text_lowercase" THEN
        TextOp(params, "lower", "Text converted to lowercase")
    ELSE IF endpoint_id = "sample_text_reverse" THEN
        LET text == DictGet(params, "input", Str(""))
        IN  IF text.t = "str"
            THEN Return(ExecuteResponse(TRUE, "Text reversed", <<Reverse(text.v)>>))
            ELSE IF text.t = "list"
            THEN Raise("1 validation error for ExecuteResponse: output: str type expected")
            ELSE Raise("'" \o text.t \o "' object is not subscriptable")
    ELSE IF endpoint_id = "sample_text_word_count" THEN
        TextOp(params, "split", "Word count calculated")
    ELSE IF endpoint_id = "sample_math_add" THEN
        MathOp(params, "a", Num("0"), "b", Num("0"), "Numbers added",
               "add", env.random)
    ELSE IF endpoint_id = "sample_math_multiply" THEN
        MathOp(params, "a", Num("1"), "b", Num("1"), "Numbers multiplied",
               "multiply", env.random)
    ELSE IF endpoint_id = "sample_math_power" THEN
        MathOp(params, "base", Num("2"), "exponent", Num("2"), "Power calculated",
               "power", env.random)
    ELSE IF endpoint_id = "sample_data_json_parse" THEN
        LET json_string == DictGet(params, "json_string", Str("{}"))
        IN  IF json_string.t # "str"
            THEN Raise("the JSON object must be str, bytes or bytearray, not "
                       \o json_string.t)
            ELSE LET parsed == JsonLoads(json_string.v)
                 IN  IF parsed.ok
                     THEN Return(ExecuteResponse(TRUE, "JSON parsed successfully",
                                                 <<parsed.text>>))
                     ELSE Return(ExecuteResponse(FALSE,
                                    "JSON parse error: " \o parsed.text, <<>>))
    ELSE IF endpoint_id = "sample_data_json_stringify" THEN
        Return(ExecuteResponse(TRUE, "Data stringified to JSON",
                               <<JsonDumps(DictGet(params, "data", EmptyDict))>>))
    ELSE IF endpoint_id = "sample_util_delay" THEN
        LET seconds == Float(DictGet(params, "seconds", Num("1")))
        IN  IF seconds.ok THEN Suspend(seconds.n) ELSE Raise(seconds.text)
    ELSE IF endpoint_id = "sample_util_timestamp" THEN
        Return(ExecuteResponse(TRUE, "Timestamp retrieved", <<IsoFormat(env.now)>>))
    ELSE IF endpoint_id = "sample_util_random" THEN
        MathOp(params, "min", Num("0"), "max", Num("100"), "Random number generated",
               "uniform", env.random)
    ELSE IF endpoint_id = "sample_string_concat" THEN
        Return(ExecuteResponse(TRUE, "Strings concatenated",
                <<PyStr(DictGet(params, "str1", Str("")))
                  \o PyStr(DictGet(params, "str2", Str("")))>>))
    ELSE IF endpoint_id = "sample_string_replace" THEN
        Return(ExecuteResponse(TRUE, "Text replaced",
                <<ReplaceAll(PyStr(DictGet(params, "text", Str(""))),
                             PyStr(DictGet(params, "old", Str(""))),
                             PyStr(DictGet(params, "new", Str(""))))>>))
    ELSE
        Return(ExecuteResponse(FALSE, "Unknown sample module: " \o endpoint_id, <<>>))

\* the response after the sleep of sample_util_delay
DelayResponse(seconds) ==
    ExecuteResponse(TRUE, "Delayed for " \o FloatStr(seconds) \o " seconds",
                    <<"Delay completed">>)

----------------------------------------------------------------------------
(* main.py: the dispatcher and the request handlers                        *)

\* what a request handler answers, with the trace of what it did on the way:
\* the strategy entered, the processes run, the exception a strategy raised
Response(kind, id, status, body, strategy, spawned, raised) ==
    [kind |-> kind, id |-> id, status |-> status, body |-> body,
     strategy |-> strategy, spawned |-> spawned, raised |-> raised]

NoResponse == Response("none", "", 0, <<>>, "", <<>>, "")

\* raise HTTPException(status_code=404, ...)
NotFound(endpoint_id) ==
    Response("execute", endpoint_id, 404,
             [detail |-> "Endpoint '" \o endpoint_id \o "' not found"], "", <<>>, "")

\* request.parameters or {}
ParamsOf(request) ==
    IF request.parameters = <<>> THEN NoParameters ELSE request.parameters[1]

\* an if / elif chain whose tool branch leaves out the node_ prefix
StrategyOfNoNode(endpoint_id) ==
    IF StartsWith(endpoint_id, "tool_") \/ StartsWith(endpoint_id, "python_") THEN "tool"
    ELSE IF endpoint_id = "system_info" THEN "system_info"
    ELSE IF endpoint_id = "git_repo" THEN "git_repo"
    ELSE IF StartsWith(endpoint_id, "sample_") THEN "sample"
    ELSE "fallback"

\* the branch of the if / elif chain that endpoint_id selects
StrategyOf(endpoint_id) ==
    IF StartsWith(endpoint_id, "tool_") \/ StartsWith(endpoint_id, "python_")
       \/ StartsWith(endpoint_id, "node_") THEN "tool"
    ELSE IF endpoint_id = "system_info" THEN "system_info"
    ELSE IF endpoint_id = "git_repo" THEN "git_repo"
    ELSE IF StartsWith(endpoint_id, "sample_") THEN "sample"
    ELSE "fallback"

\* the body of the try block
RunStrategy(endpoint_id, endpoint, request, env) ==
    LET strategy == StrategyOf(endpoint_id)
    IN  IF strategy = "tool" THEN ToolStrategy(endpoint_id, endpoint, env)
        ELSE IF strategy = "system_info" THEN SystemInfoStrategy
        ELSE IF strategy = "git_repo" THEN GitRepoStrategy(env)
        ELSE IF strategy = "sample"
        THEN [spawned |-> <<>>,
              end |-> SampleStrategy(endpoint_id, ParamsOf(request), env)]
        ELSE [spawned |-> <<>>,
              end |-> Return(ExecuteResponse(TRUE,
                        "Endpoint " \o endpoint.name \o " executed",
                        <<"Endpoint ID: " \o endpoint_id>>))]

\* the handler's answer for how the strategy ended, with the except clause
Answer(endpoint_id, ran) ==
    LET strategy == StrategyOf(endpoint_id)
    IN  IF ran.end.raised # ""
        THEN Response("execute", endpoint_id, 200,
                ExecuteResponse(FALSE, "Error executing endpoint: " \o ran.end.raised, <<>>),
                strategy, ran.spawned, ran.end.raised)
        ELSE IF ran.end.sleep # <<>>
        THEN Response("suspended", endpoint_id, 0, <<>>, strategy, ran.spawned, "")
        ELSE Response("execute", endpoint_id, 200, ran.end.response,
                      strategy, ran.spawned, "")

\* a dispatcher without the 404 check: the missing endpoint is used as None
ExecuteEndpointNoCheck(reg, endpoint_id, request, env) ==
    LET found == Get(reg, endpoint_id)
    IN  IF found = <<>>
        THEN Response("execute", endpoint_id, 200,
                ExecuteResponse(FALSE,
                    "Error executing endpoint: 'NoneType' object has no attribute 'name'",
                    <<>>),
                StrategyOf(endpoint_id), <<>>,
                "'NoneType' object has no attribute 'name'")
        ELSE Answer(endpoint_id, RunStrategy(endpoint_id, found[1], request, env))

\* a dispatcher without the try/except: an exception leaves the handler and
\* the framework answers 500
ExecuteEndpointNoTry(reg, endpoint_id, request, env) ==
    LET found == Get(reg, endpoint_id)
    IN  IF found = <<>> THEN NotFound(endpoint_id)
        ELSE LET ran == RunStrategy(endpoint_id, found[1], request, env)
             IN  IF ran.end.raised # ""
                 THEN Response("execute", endpoint_id, 500,
                               [detail |-> "Internal Server Error"],
                               StrategyOf(endpoint_id), ran.spawned, ran.end.raised)
                 ELSE Answer(endpoint_id, ran)

\* execute_endpoint, up to its first suspension
ExecuteEndpoint(reg, endpoint_id, request, env) ==
    LET found == Get(reg, endpoint_id)
    IN  IF found = <<>> THEN NotFound(endpoint_id)
        ELSE Answer(endpoint_id, RunStrategy(endpoint_id, found[1], request, env))

\* EndpointResponse.from_metadata
FromMetadata(metadata) ==
    [id |-> metadata.id, name |-> metadata.name,
     description |-> metadata.description, category |-> metadata.category,
     parameters |-> metadata.parameters,
     discovered_at |-> IsoFormat(metadata.discovered_at)]

\* a refresh that does not clear the registry before discovering
RefreshedPassNoClear(reg, h, now) == DiscoverAll(reg, h, now)

\* refresh_discovery: registry.clear(); discovery.discover_all()
RefreshedPass(reg, h, now) == DiscoverAll(Clear(reg), h, now)

----------------------------------------------------------------------------
(* Inputs of the requests                                                  *)

\* ids a client asks to execute: every id discovery can register on the
\* hosts of the model, and ids it never registers
ToolIds ==
    {"tool_" \o t : t \in HostTools \cap CommonToolNames}
    \cup {"python_" \o t.tool : t \in {u \in SeqRange(PythonTools) : u.tool \in HostTools}}
    \cup {"node_" \o t.tool : t \in {u \in SeqRange(NodeTools) : u.tool \in HostTools}}

SampleIds == {m.id : m \in SeqRange(SampleModules)}

RequestIds ==
    SampleIds \cup ToolIds \cup {"git_repo", "system_info", "nonexistent_id", "sample_unknown"}

\* the parameter names the sample operation reads
ParamKeys(endpoint_id) ==
    IF endpoint_id \in SampleIds
    THEN DOMAIN (CHOOSE m \in SeqRange(SampleModules) : m.id = endpoint_id).parameters
    ELSE {}

\* parameter bags: empty, one value under every key, or one value under one key
BagsFor(endpoint_id) ==
    LET keys == ParamKeys(endpoint_id)
    IN  {NoParameters}
        \cup {[k \in keys |-> x] : x \in BagValues}
        \cup {[k \in {key} |-> x] : key \in keys, x \in BagValues}

\* ExecuteRequest: parameters is None or a dict
RequestsFor(endpoint_id) ==
    {[parameters |-> <<>>]} \cup {[parameters |-> <<b>>] : b \in BagsFor(endpoint_id)}

StatusTexts == {"", " M main.py\n"}

\* what the environment answers during the request, as far as the strategy
\* of endpoint_id asks it
EnvsFor(endpoint_id, now) ==
    LET strategy == StrategyOf(endpoint_id)
    IN  {[run |-> r, statusText |-> s, random |-> x, now |-> now] :
            r \in IF strategy \in {"tool", "git_repo"} THEN RunOutcomes ELSE {"exit0"},
            s \in IF strategy = "git_repo" THEN StatusTexts ELSE {""},
            x \in IF endpoint_id = "sample_util_random" THEN {0, 1} ELSE {0}}

\* the tool or tools an endpoint id stands for
BackingTools(id) ==
    {t \in CommonToolNames : id = "tool_" \o t}
    \cup {t.tool : t \in {u \in SeqRange(PythonTools) : id = "python_" \o u.tool}}
    \cup {t.tool : t \in {u \in SeqRange(NodeTools) : id = "node_" \o u.tool}}
    \cup (IF id = "git_repo" THEN {"git"} ELSE {})

----------------------------------------------------------------------------
(* The service: startup, the four request handlers, the end of a sleep     *)

NoPass == [ran |-> <<>>, runs |-> <<>>, raised |-> "", stale |-> FALSE]
NoHost == [present |-> {}, workTree |-> "notrun"]

Init ==
    /\ registry = <<>>
    /\ phase = "boot"
    /\ host = NoHost
    /\ clock = 0
    /\ lastPass = NoPass
    /\ resp = NoResponse
    /\ sleeping = EmptyBag
    /\ lastOp = [op |-> "none"]

Seen(h) == [present |-> h.present, workTree |-> h.workTree]

\* the trace of a pass: the probes entered, the processes run, the exception
\* that left discover_all, and whether the registry held, before the pass, an
\* endpoint whose tool the pass did not find
Trace(pass, before, h) ==
    [ran |-> pass.ran, runs |-> pass.runs, raised |-> pass.raised,
     stale |-> \E id \in Ids(before) :
                    BackingTools(id) # {} /\ BackingTools(id) \cap h.present = {}]

\* the event loop runs one handler at a time, to its return or to its next
\* await, and is free for the next once the response has been handed over
Idle == phase = "up" /\ resp = NoResponse

\* what a discovery pass leaves behind
Discovered(pass, h, now) ==
    /\ registry' = pass.reg
    /\ host' = Seen(h)
    /\ clock' = now
    /\ lastPass' = Trace(pass, registry, h)

\* @app.on_event("startup") startup_event
StartupDone(pass, h, now) ==
    /\ Discovered(pass, h, now)
    /\ phase' = IF pass.raised = "" THEN "up" ELSE "failed"

StartupEvent ==
    /\ phase = "boot"
    /\ \E h \in HostStates : StartupDone(DiscoverAll(registry, h, clock + 1), h, clock + 1)
    /\ UNCHANGED <<resp, sleeping, lastOp>>

\* GET /api/health health_check
HealthCheck ==
    /\ Idle
    /\ resp' = Response("health", "", 200,
                        [status |-> "healthy", endpoints_registered |-> Count(registry)],
                        "", <<>>, "")
    /\ registry' = AfterCount(registry)
    /\ UNCHANGED <<phase, host, clock, lastPass, sleeping, lastOp>>

\* GET /api/discover discover_endpoints
DiscoverEndpoints ==
    /\ Idle
    /\ LET endpoints == GetAll(registry)
       IN  resp' = Response("discover", "", 200,
                            [i \in 1..Len(endpoints) |-> FromMetadata(endpoints[i])],
                            "", <<>>, "")
    /\ registry' = AfterGetAll(registry)
    /\ UNCHANGED <<phase, host, clock, lastPass, sleeping, lastOp>>

\* POST /api/execute/{endpoint_id} execute_endpoint: to its return, or to the
\* await in sample_util_delay
Executed(r, request) ==
    IF r.kind = "suspended"
    THEN /\ BagCardinality(sleeping) < MaxSleeping
         /\ sleeping' = sleeping (+) SetToBag({
                Float(DictGet(ParamsOf(request), "seconds", Num("1"))).n})
         /\ resp' = resp
    ELSE /\ resp' = r
         /\ sleeping' = sleeping

Execute ==
    /\ Idle
    /\ \E endpoint_id \in RequestIds :
       \E request \in RequestsFor(endpoint_id), env \in EnvsFor(endpoint_id, clock) :
        /\ Executed(ExecuteEndpoint(registry, endpoint_id, request, env), request)
        /\ registry' = AfterGet(registry, endpoint_id)
    /\ UNCHANGED <<phase, host, clock, lastPass, lastOp>>

\* execute_endpoint, from the end of asyncio.sleep to its return
DelayWake ==
    /\ Idle
    /\ \E seconds \in BagToSet(sleeping) :
        /\ sleeping' = sleeping (-) SetToBag({seconds})
        /\ resp' = Response("execute", "sample_util_delay", 200, DelayResponse(seconds),
                            "sample", <<>>, "")
    /\ UNCHANGED <<registry, phase, host, clock, lastPass, lastOp>>

\* POST /api/refresh refresh_discovery
Refreshed(pass, h, now) ==
    /\ Discovered(pass, h, now)
    /\ resp' = IF pass.raised = ""
               THEN Response("refresh", "", 200,
                        [status |-> "refreshed",
                         endpoints_registered |-> Count(pass.reg)],
                        "", <<>>, "")
               ELSE Response("refresh", "", 500,
                        [detail |-> "Internal Server Error"], "", <<>>, pass.raised)

RefreshDiscovery ==
    /\ Idle
    /\ clock < MaxClock
    /\ \E h \in HostStates : Refreshed(RefreshedPass(registry, h, clock + 1), h, clock + 1)
    /\ UNCHANGED <<phase, sleeping, lastOp>>

\* the response leaves for the client
Respond ==
    /\ resp # NoResponse
    /\ resp' = NoResponse
    /\ UNCHANGED <<registry, phase, host, clock, lastPass, sleeping, lastOp>>

Next ==
    \/ StartupEvent
    \/ HealthCheck
    \/ DiscoverEndpoints
    \/ Execute
    \/ DelayWake
    \/ RefreshDiscovery
    \/ Respond

Spec == Init /\ [][Next]_vars

----------------------------------------------------------------------------
(* The registry driven directly: register, unregister and clear in any     *)
(* order, with endpoints that share ids and differ in every other field    *)

RegIdPool == <<"tool_git", "git_repo", "system_info", "sample_math_add", "node_yarn">>

RegIds == {RegIdPool[i] : i \in 1..MaxRegIds}

RegEndpoints ==
    {EndpointMetadata(id, "first", "registered first", "Tools",
                      [command |-> "git", version |-> "unknown"], 1) : id \in RegIds}
    \cup {EndpointMetadata(id, "second", "registered second", "Git",
                           [command |-> "hg"], 2) : id \in RegIds}

\* the operation just applied: its argument, the entry the id had before it,
\* and count() before it
Applied(op, id, endpoint) ==
    [op |-> op, id |-> id, endpoint |-> endpoint,
     had |-> Get(registry, id), countBefore |-> Count(registry)]

RegRegister ==
    /\ \E e \in RegEndpoints :
        /\ registry' = Register(registry, e)
        /\ lastOp' = Applied("register", e.id, <<e>>)
    /\ UNCHANGED <<phase, host, clock, lastPass, resp, sleeping>>

RegUnregister ==
    /\ \E id \in RegIds :
        /\ registry' = Unregister(registry, id)
        /\ lastOp' = Applied("unregister", id, <<>>)
    /\ UNCHANGED <<phase, host, clock, lastPass, resp, sleeping>>

RegClear ==
    /\ registry' = Clear(registry)
    /\ lastOp' = Applied("clear", "", <<>>)
    /\ UNCHANGED <<phase, host, clock, lastPass, resp, sleeping>>

NextReg == RegRegister \/ RegUnregister \/ RegClear

SpecReg == Init /\ [][NextReg]_vars

----------------------------------------------------------------------------
(* discover_all called twice on one host, with or without a clear between  *)

InitIdem ==
    /\ registry = <<>>
    /\ phase = "idem_start"
    /\ host \in {Seen(h) : h \in HostStates}
    /\ clock = 0
    /\ lastPass = NoPass
    /\ resp = NoResponse
    /\ sleeping = EmptyBag
    /\ lastOp = [op |-> "none", first |-> {}]

\* the host answers as before where the registry can tell; how fast the
\* version queries answer may differ from run to run
SameHost == {h \in HostStates : Seen(h) = host}

IdemRan(pass, h, now) ==
    /\ registry' = pass.reg
    /\ clock' = now
    /\ lastPass' = Trace(pass, registry, h)

IdemRun ==
    /\ phase = "idem_start"
    /\ \E h \in SameHost :
        /\ IdemRan(DiscoverAll(registry, h, clock + 1), h, clock + 1)
        /\ lastOp' = [op |-> "discover_all", first |-> Ids(registry')]
    /\ phase' = "idem_first"
    /\ UNCHANGED <<host, resp, sleeping>>

IdemClear ==
    /\ phase = "idem_first"
    /\ registry' = Clear(registry)
    /\ phase' = "idem_cleared"
    /\ UNCHANGED <<host, clock, lastPass, resp, sleeping, lastOp>>

IdemRerun ==
    /\ phase \in {"idem_first", "idem_cleared"}
    /\ \E h \in SameHost : IdemRan(DiscoverAll(registry, h, clock + 1), h, clock + 1)
    /\ lastOp' = [lastOp EXCEPT !.op = IF phase = "idem_cleared"
                                       THEN "rerun_after_clear" ELSE "rerun"]
    /\ phase' = "idem_second"
    /\ UNCHANGED <<host, resp, sleeping>>

NextIdem == IdemRun \/ IdemClear \/ IdemRerun

SpecIdem == InitIdem /\ [][NextIdem]_vars

----------------------------------------------------------------------------
(* The event loop at the grain of the refresh handler's statements: where  *)
(* a running handler stands, and where it gives the loop to another        *)

\* an event loop on which the process runs of discovery are awaited
SuspensionPointsSpawn == {"sleep", "common_tools", "git_tools"}

\* the places at which a handler gives the event loop back before it
\* returns: the service has one await, the asyncio.sleep of sample_util_delay;
\* discovery.py has none and its subprocess.run blocks the loop
SuspensionPoints == {"sleep"}

\* whether the call the refresh stands at runs a process on host h
SpawnsAt(position, h) ==
    \/ position = "common_tools" /\ h.present \cap CommonToolNames # {}
    \/ position = "git_tools" /\ "git" \in h.present

\* the event loop can start or resume a handler: none is running, or the
\* running one stands at an await
LoopFree == phase = "up" \/ phase \in SuspensionPoints

\* the call of discover_all that the handler stands at
Probe(position, st, h, now) ==
    CASE position = "sample_modules" -> DiscoverSampleModules(st, now)
      [] position = "common_tools" -> DiscoverCommonTools(st, h, now)
      [] position = "python_tools" -> DiscoverPythonTools(st, h, now)
      [] position = "node_tools" -> DiscoverNodeTools(st, h, now)
      [] position = "git_tools" -> DiscoverGitTools(st, h, now)
      [] position = "system_info" -> DiscoverSystemInfo(st, now)

\* where the handler stands after the call at position has ended as st
After(position, st) ==
    IF st.raised # "" \/ position = "system_info" THEN "return"
    ELSE ProbeOrder[1 + CHOOSE i \in 1..Len(ProbeOrder) : ProbeOrder[i] = position]

InitLoop ==
    /\ registry = <<>>
    /\ phase = "boot"
    /\ host = NoHost
    /\ clock = 0
    /\ lastPass = PassStart(<<>>)
    /\ resp = NoResponse
    /\ sleeping = EmptyBag
    /\ lastOp = [op |-> "none", h |-> NoHost]

LoopStarted(pass, h) ==
    /\ registry' = pass.reg
    /\ lastPass' = pass
    /\ host' = Seen(h)
    /\ lastOp' = [op |-> "startup", h |-> h]

\* startup_event: the server takes no request before it has returned
LoopStartup ==
    /\ phase = "boot"
    /\ \E h \in HostStates : LoopStarted(DiscoverAll(registry, h, clock), h)
    /\ phase' = "up"
    /\ UNCHANGED <<clock, resp, sleeping>>

\* refresh_discovery: registry.clear(); the request is taken up once the
\* response before it has left
LoopRefreshClear ==
    /\ phase = "up"
    /\ resp = NoResponse
    /\ clock < MaxClock
    /\ registry' = Clear(registry)
    /\ lastPass' = PassStart(Clear(registry))
    /\ \E h \in HostStates :
        /\ host' = Seen(h)
        /\ lastOp' = [op |-> "refresh", h |-> h]
    /\ clock' = clock + 1
    /\ phase' = ProbeOrder[1]
    /\ UNCHANGED <<resp, sleeping>>

LoopProbed(position, st) ==
    /\ registry' = st.reg
    /\ lastPass' = st
    /\ phase' = After(position, st)

\* refresh_discovery: discovery.discover_all(), one call of it
LoopRefreshProbe ==
    /\ phase \in SeqRange(ProbeOrder)
    /\ LoopProbed(phase, Probe(phase, [lastPass EXCEPT !.reg = registry], lastOp.h, clock))
    /\ lastOp' = [lastOp EXCEPT !.op = "refresh"]
    /\ UNCHANGED <<host, clock, resp, sleeping>>

\* refresh_discovery: return
LoopRefreshReturn ==
    /\ phase = "return"
    /\ phase' = "up"
    /\ resp' = IF lastPass.raised = ""
               THEN Response("refresh", "", 200,
                        [status |-> "refreshed",
                         endpoints_registered |-> Count(registry)],
                        "", <<>>, "")
               ELSE Response("refresh", "", 500,
                        [detail |-> "Internal Server Error"], "", <<>>, lastPass.raised)
    /\ lastOp' = [lastOp EXCEPT !.op = "refresh"]
    /\ UNCHANGED <<registry, host, clock, lastPass, sleeping>>

\* health_check, when the event loop can start it
LoopHealthCheck ==
    /\ LoopFree
    /\ resp' = Response("health", "", 200,
                        [status |-> "healthy", endpoints_registered |-> Count(registry)],
                        "", <<>>, "")
    /\ lastOp' = [lastOp EXCEPT !.op = "health"]
    /\ registry' = AfterCount(registry)
    /\ UNCHANGED <<phase, host, clock, lastPass, sleeping>>

LoopListed(endpoints) ==
    resp' = Response("discover", "", 200,
                     [i \in 1..Len(endpoints) |-> FromMetadata(endpoints[i])],
                     "", <<>>, "")

\* discover_endpoints, when the event loop can start it
LoopDiscoverEndpoints ==
    /\ LoopFree
    /\ LoopListed(GetAll(registry))
    /\ lastOp' = [lastOp EXCEPT !.op = "discover"]
    /\ registry' = AfterGetAll(registry)
    /\ UNCHANGED <<phase, host, clock, lastPass, sleeping>>

\* the request is suspended at its await with the time of its lookup, or answered
LoopExecuted(r) ==
    IF r.kind = "suspended"
    THEN /\ BagCardinality(sleeping) < MaxSleeping
         /\ sleeping' = sleeping (+) SetToBag({clock})
         /\ resp' = resp
    ELSE /\ resp' = r
         /\ sleeping' = sleeping

\* the ids looked up while refreshes come and go: one that every pass
\* registers first, one it registers last, one that depends on the host, and
\* one it never registers
LoopRequestIds == {"sample_util_delay", "system_info", "git_repo", "nonexistent_id"}

\* execute_endpoint with the default parameters, when the event loop can start it
LoopExecute ==
    /\ LoopFree
    /\ \E endpoint_id \in LoopRequestIds : \E env \in EnvsFor(endpoint_id, clock) :
        /\ LoopExecuted(ExecuteEndpoint(registry, endpoint_id, [parameters |-> <<>>], env))
        /\ registry' = AfterGet(registry, endpoint_id)
    /\ lastOp' = [lastOp EXCEPT !.op = "execute"]
    /\ UNCHANGED <<phase, host, clock, lastPass>>

\* execute_endpoint resumed after asyncio.sleep: it reads the registry no more
LoopDelayWake ==
    /\ LoopFree
    /\ \E since \in BagToSet(sleeping) :
        /\ sleeping' = sleeping (-) SetToBag({since})
        /\ resp' = Response("execute", "sample_util_delay", 200, DelayResponse(1),
                            "sample", <<>>, "")
        /\ lastOp' = [lastOp EXCEPT !.op = IF since < clock THEN "woke_after_refresh"
                                           ELSE "woke"]
    /\ UNCHANGED <<registry, phase, host, clock, lastPass>>

\* the response leaves for the client
LoopRespond ==
    /\ resp # NoResponse
    /\ resp' = NoResponse
    /\ lastOp' = [lastOp EXCEPT !.op = "respond"]
    /\ UNCHANGED <<registry, phase, host, clock, lastPass, sleeping>>

NextLoop ==
    \/ LoopStartup
    \/ LoopRefreshClear
    \/ LoopRefreshProbe
    \/ LoopRefreshReturn
    \/ LoopHealthCheck
    \/ LoopDiscoverEndpoints
    \/ LoopExecute
    \/ LoopDelayWake
    \/ LoopRespond

SpecLoop == InitLoop /\ [][NextLoop]_vars

----------------------------------------------------------------------------
(* The whole catalog: discovery on hosts that have any of the allow-listed *)
(* tools, then execute of the ids it registered                            *)

\* hosts with up to MaxCatalogTools of all the tools discovery asks for
CatalogHosts ==
    UNION {{[present |-> p, versionRun |-> v, workTree |-> w] :
                v \in [p \cap CommonToolNames -> RunOutcomes],
                w \in IF "git" \in p THEN RunOutcomes ELSE {"notrun"}} :
           p \in {q \in SUBSET AllToolNames : Cardinality(q) <= MaxCatalogTools}}

InitCatalog ==
    /\ registry = <<>>
    /\ phase = "boot"
    /\ host = NoHost
    /\ clock = 0
    /\ lastPass = NoPass
    /\ resp = NoResponse
    /\ sleeping = EmptyBag
    /\ lastOp = [op |-> "none"]

\* startup_event on a host of the catalog
CatalogStartup ==
    /\ phase = "boot"
    /\ \E h \in CatalogHosts : StartupDone(DiscoverAll(registry, h, clock + 1), h, clock + 1)
    /\ UNCHANGED <<resp, sleeping, lastOp>>

\* execute_endpoint of an id the pass registered, with the default parameters,
\* to its return or to its await
CatalogExecute ==
    /\ phase = "up"
    /\ \E endpoint_id \in Ids(registry) : \E env \in EnvsFor(endpoint_id, clock) :
        /\ resp' = ExecuteEndpoint(registry, endpoint_id, [parameters |-> <<>>], env)
        /\ registry' = AfterGet(registry, endpoint_id)
    /\ UNCHANGED <<phase, host, clock, lastPass, sleeping, lastOp>>

NextCatalog == CatalogStartup \/ CatalogExecute

SpecCatalog == InitCatalog /\ [][NextCatalog]_vars

----------------------------------------------------------------------------
(* Properties                                                              *)

\* C1: whatever register, unregister and clear have been applied, every id
\* is the key of exactly one entry; right after register(e) the entry under
\* e.id is e itself, field for field, and if the id was registered before,
\* count() is what it was before the call.
C1_RegisterReplaces ==
    /\ \A id \in Ids(registry) : Cardinality(KeyIndex(registry, id)) = 1
    /\ lastOp.op = "register" =>
        /\ Get(registry, lastOp.id) = lastOp.endpoint
        /\ Cardinality(KeyIndex(registry, lastOp.id)) = 1
        /\ (lastOp.had # <<>> => Count(registry) = lastOp.countBefore)

\* a register over an entry of the same id whose fields and parameter keys differ
C1_Witness ==
    /\ lastOp.op = "register"
    /\ lastOp.had # <<>>
    /\ lastOp.had[1].name # lastOp.endpoint[1].name
    /\ DOMAIN lastOp.had[1].parameters # DOMAIN lastOp.endpoint[1].parameters
    /\ Count(registry) > 1

\* C2: once a discovery pass (startup or refresh) has completed, every
\* endpoint in the registry, and every endpoint in a list-capabilities answer,
\* that stands for a tool stands for one the pass found on the search path.
C2_NoStaleEndpoints ==
    phase = "up" =>
        /\ \A id \in Ids(registry) : BackingTools(id) \subseteq host.present
        /\ resp.kind = "discover" =>
            \A i \in 1..Len(resp.body) : BackingTools(resp.body[i].id) \subseteq host.present

\* a listing after a refresh that met a registry holding a tool no longer there
C2_Witness ==
    /\ phase = "up"
    /\ lastPass.stale
    /\ resp.kind = "discover"
    /\ Len(resp.body) = Count(registry)

\* C3: after discover_all has run twice on an unchanged host, cleared in
\* between or not, the registry holds the ids it held after the first run.
C3_DiscoveryIdempotent ==
    phase = "idem_second" => Ids(registry) = lastOp.first

\* a second run on top of the first, on a host with git inside a work tree
C3_Witness ==
    /\ phase = "idem_second"
    /\ lastOp.op = "rerun"
    /\ {"git_repo", "tool_git", "system_info"} \subseteq Ids(registry)

\* C4: an execute request is answered 404 exactly when its id is not in the
\* registry; the 404 is not an Execution Result and no strategy ran for it.
C4_NotFoundIffAbsent ==
    resp.kind = "execute" =>
        /\ (resp.status = 404) <=> (resp.id \notin Ids(registry))
        /\ resp.status = 404 =>
            /\ DOMAIN resp.body = {"detail"}
            /\ resp.strategy = ""
            /\ resp.spawned = <<>>
        /\ resp.status # 404 => "success" \in DOMAIN resp.body

\* a request for an id no pass registers
C4_Witness ==
    /\ resp.kind = "execute"
    /\ resp.id = "nonexistent_id"
    /\ resp.status = 404

\* C5: every discovery pass enters all six probes in order and no exception
\* leaves discover_all, whatever the version queries and the work-tree query
\* did; the endpoints of the probes after a failed query are registered.
C5_ProbesIsolated ==
    lastPass.ran # <<>> =>
        /\ lastPass.ran = ProbeOrder
        /\ lastPass.raised = ""
        /\ phase # "failed"
        /\ resp.kind = "refresh" => resp.status = 200
        /\ "system_info" \in Ids(registry)
        /\ \A t \in host.present :
                \E id \in Ids(registry) : t \in BackingTools(id) /\ id # "git_repo"

\* a pass in which git's version query failed and the work-tree query raised
C5_Witness ==
    /\ lastPass.ran = ProbeOrder
    /\ host.workTree = "oserror"
    /\ Get(registry, "tool_git") # <<>>
    /\ Get(registry, "tool_git")[1].parameters.version = "unknown"
    /\ {"python_pip", "node_yarn", "system_info"} \subseteq Ids(registry)

\* an Execution Result: success, message and an optional output
WellFormed(body) ==
    /\ DOMAIN body = {"success", "message", "output"}
    /\ body.success \in BOOLEAN
    /\ Len(body.message) > 0
    /\ Len(body.output) <= 1

\* C6: an execute request for a registered id is answered 200 with an
\* Execution Result; an exception raised inside a strategy becomes
\* success=false with the exception's text in the message; 404 is the only
\* other answer.
C6_UniformResult ==
    resp.kind = "execute" =>
        /\ resp.status \in {200, 404}
        /\ resp.id \in Ids(registry) => resp.status = 200 /\ WellFormed(resp.body)
        /\ resp.raised # "" =>
            /\ resp.status = 200
            /\ WellFormed(resp.body)
            /\ resp.body.success = FALSE
            /\ resp.body.message = "Error executing endpoint: " \o resp.raised
            /\ resp.body.output = <<>>

\* a sample operation that raised on a wrong-typed parameter
C6_Witness ==
    /\ resp.kind = "execute"
    /\ resp.strategy = "sample"
    /\ resp.raised # ""
    /\ resp.body.success = FALSE

\* C7: once startup discovery has run, all 14 sample ids are registered.
C7_SamplesAlwaysPresent ==
    phase = "up" =>
        /\ SampleIds \subseteq Ids(registry)
        /\ Cardinality(SampleIds) = 14

\* after a refresh whose work-tree query timed out
C7_Witness ==
    /\ phase = "up"
    /\ clock > 1
    /\ host.workTree = "timeout"
    /\ SampleIds \subseteq Ids(registry)

\* C8: executing git_repo runs `git status --short` once with a 2-second
\* bound; when it exits 0 the answer is success=true with the status text as
\* output, and "No changes" when that text is empty.
C8_EmptyStatusIsNoChanges ==
    (resp.kind = "execute" /\ resp.id = "git_repo" /\ resp.status = 200) =>
        /\ Len(resp.spawned) = 1
        /\ resp.spawned[1].timeout = 2
        /\ (resp.spawned[1].result.raised = "" /\ resp.spawned[1].result.returncode = 0) =>
            /\ resp.body.success = TRUE
            /\ resp.body.output =
                <<IF resp.spawned[1].result.stdout = "" THEN "No changes"
                  ELSE resp.spawned[1].result.stdout>>

\* C9: executing a tool_, python_ or node_ endpoint runs its recorded command
\* with --version once, bounded at 5 seconds: exit 0 gives success=true with
\* stdout, a nonzero exit gives success=false with stderr, a timeout gives
\* success=false with the dispatcher's failure message.
C9_ToolReinvokedOnce ==
    (resp.kind = "execute" /\ resp.status = 200 /\ resp.strategy = "tool") =>
        /\ Len(resp.spawned) = 1
        /\ resp.spawned[1].argv =
                <<Get(registry, resp.id)[1].parameters.command, "--version">>
        /\ resp.spawned[1].timeout = 5
        /\ (resp.spawned[1].result.raised = "" /\ resp.spawned[1].result.returncode = 0) =>
            /\ resp.body.success = TRUE
            /\ resp.body.output = <<resp.spawned[1].result.stdout>>
        /\ (resp.spawned[1].result.raised = "" /\ resp.spawned[1].result.returncode # 0) =>
            /\ resp.body.success = FALSE
            /\ resp.body.output = <<resp.spawned[1].result.stderr>>
            /\ resp.body.message = "Execution failed: " \o resp.spawned[1].result.stderr
        /\ resp.spawned[1].result.raised = "TimeoutExpired" =>
            /\ resp.body.success = FALSE
            /\ resp.body.output = <<>>
            /\ resp.body.message = "Error executing endpoint: " \o resp.raised
            /\ resp.raised = "Command '" \o resp.spawned[1].argv[1]
                             \o "' timed out after 5 seconds"

\* a python_ endpoint whose re-invocation timed out
C9_Witness ==
    /\ resp.kind = "execute"
    /\ resp.id = "python_pip"
    /\ resp.status = 200
    /\ resp.spawned[1].result.raised = "TimeoutExpired"

\* C10: after a pass, git_repo is registered exactly when git was on the
\* path and the work-tree query, run once with a 2-second bound, exited 0;
\* in every case the system descriptor probe ran and registered.
C10_GitRepoIffWorkTree ==
    lastPass.ran # <<>> =>
        /\ ("git_repo" \in Ids(registry)) <=>
                ("git" \in host.present /\ host.workTree = "exit0")
        /\ Cardinality({i \in 1..Len(lastPass.runs) :
                            lastPass.runs[i] =
                                [argv |-> <<"git", "rev-parse", "--is-inside-work-tree">>,
                                 timeout |-> 2]})
            = (IF "git" \in host.present THEN 1 ELSE 0)
        /\ lastPass.ran[Len(lastPass.ran)] = "system_info"
        /\ "system_info" \in Ids(registry)

\* git on the path, the work-tree query timed out
C10_Witness ==
    /\ lastPass.ran # <<>>
    /\ "tool_git" \in Ids(registry)
    /\ host.workTree = "timeout"
    /\ "git_repo" \notin Ids(registry)
    /\ "system_info" \in Ids(registry)

\* C11 (as stated): concurrent requests interleave at the process runs of
\* discovery, so that while a refresh stands, between its clear and the end of
\* its repopulation, at a call that runs a process, a lookup can run and
\* observe the registry as it is then.
C11_LookupRunsMidRefresh ==
    SpawnsAt(phase, lastOp.h) => ENABLED LoopHealthCheck

\* C11 (amended): requests interleave only at the await of the delay
\* operation; the refresh handler has no suspension point, so every health,
\* list-capabilities or execute lookup reads the registry exactly as a
\* complete discovery pass on the host of the latest pass leaves it, never
\* empty or partially repopulated (a lookup leaves the registry as it read it).
C11_LookupsSeeCompletePass ==
    lastOp.op \in {"health", "discover", "execute"}
        => registry = DiscoverAll(<<>>, lastOp.h, clock).reg

\* a lookup ran after a refresh while a request suspended before that refresh
\* was still asleep
C11_Witness ==
    /\ lastOp.op \in {"health", "discover", "execute"}
    /\ phase = "up"
    /\ \E since \in BagToSet(sleeping) : since < clock

\* C12: on every host, executing an id that discover_all registered enters a
\* dedicated strategy: never the generic fallback acknowledgement, and, for
\* the sample ids, never the "Unknown sample module" failure.
C12_CatalogRouted ==
    (resp.kind \in {"execute", "suspended"} /\ resp.status # 404
     /\ Contains(registry, resp.id))
        => /\ resp.strategy \in {"tool", "system_info", "git_repo", "sample"}
           /\ resp.kind = "execute"
                => ~StartsWith(resp.body.message, "Unknown sample module")

\* a registered node tool was executed and answered
C12_Witness ==
    /\ resp.kind = "execute"
    /\ resp.status = 200
    /\ Contains(registry, resp.id)
    /\ StartsWith(resp.id, "node_")
    /\ resp.body.success

\* C13: a health, list-capabilities or execute request, whatever its id, its
\* parameter bag and its outcome (answered, failed, NotFound, or suspended in
\* the delay), leaves the registry as it found it: the same ids, and the same
\* endpoint under each.
C13_RequestsLeaveRegistry ==
    [][((resp' # resp /\ resp'.kind \in {"health", "discover", "execute"})
        \/ sleeping' # sleeping)
            => registry' = registry]_vars

\* an execute of a registered id has ended in a failed result while the
\* registry holds the tools of the host
C13_Witness ==
    /\ resp.kind = "execute"
    /\ resp.status = 200
    /\ ~resp.body.success
    /\ Contains(registry, resp.id)
    /\ Contains(registry, "git_repo")

====
